---- MODULE Spec2Model ----
(***************************************************************************)
(* Model of the linux_proc parsers: the primitive parsers of src/util.rs,  *)
(* the LineParser, and the record decoders and readers of src/stat.rs,     *)
(* src/diskstats.rs and src/uptime.rs.                                     *)
(*                                                                         *)
(* Text is a sequence of one-character strings.  A u64 is kept at its full *)
(* width as four 16-bit limbs, least significant first, so that            *)
(* `acc * 10 + digit` overflows exactly where the code's does.             *)
(***************************************************************************)
EXTENDS Integers, Sequences, FiniteSets, TLC

VARIABLES
    prog,            \* the entry point this run calls
    pc,              \* position inside the entry point
    arg,             \* the &str handed to a pure function
    overflow_checks, \* build profile: TRUE = debug (overflow panics), FALSE = release (wraps)
    src,             \* the lines the underlying io::Read will deliver
    pos,             \* number of lines BufReader has delivered so far
    buffer,          \* LineParser.buffer
    ioLeft,          \* read failures the source may still inject
    locals,          \* the local variables of the running from_reader
    result,          \* the value returned (or the panic raised) by the entry point
    given,           \* ghost: the structured description the input text was rendered from
    trace            \* ghost: one record per parse_line call

vars == <<prog, pc, arg, overflow_checks, src, pos, buffer, ioLeft, locals, result, given, trace>>

(***************************************************************************)
(* Bounds of the model.                                                    *)
(***************************************************************************)
MaxSmallValue == 12
MaxNanoDigits == 10
MaxCores == 2
MaxIoErrors == 1
MaxDiskLines == 3
MaxSrcLines == 2
MaxCalls == 4

(***************************************************************************)
(* Characters.                                                             *)
(***************************************************************************)
DigitChars == <<"0", "1", "2", "3", "4", "5", "6", "7", "8", "9">>

NoDigit == 0 - 1

\* char::to_digit(10)
to_digit(ch) ==
    IF \E i \in 1..10 : DigitChars[i] = ch
    THEN (CHOOSE i \in 1..10 : DigitChars[i] = ch) - 1
    ELSE NoDigit

\* char::is_whitespace, on the ASCII characters these files hold
is_whitespace(ch) == ch \in {" ", "\t", "\n", "\r"}

RECURSIVE starts_with(_, _)
starts_with(s, prefix) ==
    IF prefix = <<>> THEN TRUE
    ELSE IF s = <<>> THEN FALSE
    ELSE Head(s) = Head(prefix) /\ starts_with(Tail(s), Tail(prefix))

Drop(s, n) == SubSeq(s, n + 1, Len(s))

(***************************************************************************)
(* u64 arithmetic on four 16-bit limbs.                                    *)
(***************************************************************************)
LimbBase == 2 ^ 16

U64Zero == <<0, 0, 0, 0>>

U64Max == <<LimbBase - 1, LimbBase - 1, LimbBase - 1, LimbBase - 1>>

\* a natural below 2^31 as a u64
FromNat(n) == <<n % LimbBase, n \div LimbBase, 0, 0>>

\* acc * m + a in u64: the wrapped value and whether it overflowed
MulAdd(acc, m, a) ==
    LET t1 == acc[1] * m + a
        t2 == acc[2] * m + (t1 \div LimbBase)
        t3 == acc[3] * m + (t2 \div LimbBase)
        t4 == acc[4] * m + (t3 \div LimbBase)
    IN  [val |-> <<t1 % LimbBase, t2 % LimbBase, t3 % LimbBase, t4 % LimbBase>>,
         overflow |-> (t4 \div LimbBase) # 0]

\* v divided by a small d (d < 2^15): quotient and remainder
DivMod(v, d) ==
    LET c4 == v[4]
        c3 == (c4 % d) * LimbBase + v[3]
        c2 == (c3 % d) * LimbBase + v[2]
        c1 == (c2 % d) * LimbBase + v[1]
    IN  [q |-> <<c1 \div d, c2 \div d, c3 \div d, c4 \div d>>, r |-> c1 % d]

RECURSIVE DecimalDigits(_)
DecimalDigits(v) ==
    IF v = U64Zero THEN <<>>
    ELSE LET d == DivMod(v, 10) IN Append(DecimalDigits(d.q), DigitChars[d.r + 1])

\* the decimal rendering of a u64 (u64's Display): no sign, no leading zeros
ToDecimal(v) == IF v = U64Zero THEN <<"0">> ELSE DecimalDigits(v)

(***************************************************************************)
(* Option / Result values.                                                 *)
(***************************************************************************)
None == [kind |-> "none"]

Some(rest, val) == [kind |-> "some", rest |-> rest, val |-> val]

Panic(msg) == [kind |-> "panic", msg |-> msg]

\* Option<T> for a value without a remainder
Just(val) == [kind |-> "some", val |-> val]

Ok(val) == [kind |-> "ok", val |-> val]

\* crate::Error(String)
Error(msg) == [kind |-> "err", msg |-> msg]

\* io::Error: its ErrorKind and, for InvalidData, the boxed crate::Error's message
IoError(errkind, msg) == [kind |-> "err", error |-> errkind, msg |-> msg]

(***************************************************************************)
(* src/util.rs: the primitive parsers.                                     *)
(*                                                                         *)
(* A function that binds intermediate results (`let (input, x) = f(..)?`)  *)
(* is written as a chain of operators, one per binding, each taking the    *)
(* value bound so far.                                                     *)
(***************************************************************************)
RECURSIVE consume_space(_)
consume_space(input) ==
    IF input = <<>> THEN <<>>
    ELSE IF ~is_whitespace(Head(input)) /\ Head(input) # "\n" /\ Head(input) # "\r"
         THEN input
         ELSE consume_space(Tail(input))

\* the length of the maximal prefix of non-whitespace characters (`end`)
RECURSIVE token_end(_)
token_end(token) ==
    IF token = <<>> \/ is_whitespace(Head(token)) THEN 0
    ELSE 1 + token_end(Tail(token))

\* Some((&token[end..], &token[..end]))
token_split(token, end) == Some(Drop(token, end), SubSeq(token, 1, end))

token_of(token) ==
    IF token = <<>> THEN None ELSE token_split(token, token_end(token))

parse_token(input) == token_of(consume_space(input))

\* the `for ch in chars` loop of parse_u64
RECURSIVE u64_loop(_, _, _)
u64_loop(chars, acc, overflowed) ==
    IF chars = <<>> \/ to_digit(Head(chars)) = NoDigit
    THEN [rest |-> chars, acc |-> acc, overflowed |-> overflowed]
    ELSE LET m == MulAdd(acc, 10, to_digit(Head(chars))) IN
         u64_loop(Tail(chars), m.val, overflowed \/ m.overflow)

\* Some((&input[next_idx..], acc)); an overflow of `acc * 10 + val` panics in a build
\* with overflow checks and wraps in one without
u64_result(r) ==
    IF r.overflowed /\ overflow_checks
    THEN Panic("attempt to multiply with overflow")
    ELSE Some(r.rest, r.acc)

u64_of(s) ==
    IF s = <<>> THEN None
    ELSE IF to_digit(Head(s)) = NoDigit THEN None
    ELSE u64_result(u64_loop(Tail(s), FromNat(to_digit(Head(s))), FALSE))

\* parse_u64 without its consume_space (a mutant of parse_u64)
parse_u64_no_space(input) == u64_of(input)

parse_u64(input) == u64_of(consume_space(input))

expect_at(expected, s) ==
    IF starts_with(s, expected) THEN Some(Drop(s, Len(expected)), <<>>) ELSE None

expect_bytes(expected, input) == expect_at(expected, consume_space(input))

\* the `for ch in chars` loop of parse_nanos
RECURSIVE nanos_loop(_, _, _)
nanos_loop(chars, acc, multer) ==
    IF chars = <<>> \/ to_digit(Head(chars)) = NoDigit
    THEN Some(chars, acc)
    ELSE IF multer \div 10 = 1 THEN Panic("too many numbers")
    ELSE nanos_loop(Tail(chars), acc + to_digit(Head(chars)) * multer, multer \div 10)

nanos_of(s) ==
    IF s = <<>> THEN None
    ELSE IF to_digit(Head(s)) = NoDigit THEN None
    ELSE nanos_loop(Tail(s), to_digit(Head(s)) * 100000000, 10000000)

parse_nanos(input) == nanos_of(consume_space(input))

\* n consecutive `parse_u64(input)?` steps: the remainder and the n values
RECURSIVE parse_u64s(_, _)
RECURSIVE u64s_next(_, _)
u64s_cons(val, t) ==
    IF t.kind # "some" THEN t ELSE Some(t.rest, <<val>> \o t.val)

u64s_next(r, n) ==
    IF r.kind # "some" THEN r ELSE u64s_cons(r.val, parse_u64s(r.rest, n - 1))

parse_u64s(input, n) ==
    IF n = 0 THEN Some(input, <<>>) ELSE u64s_next(parse_u64(input), n)

(***************************************************************************)
(* Literals of the decoders.                                               *)
(***************************************************************************)
T_cpu == <<"c", "p", "u">>

T_cpu0 == <<"c", "p", "u", "0">>

T_cpu1 == <<"c", "p", "u", "1">>

T_ctxt == <<"c", "t", "x", "t">>

T_btime == <<"b", "t", "i", "m", "e">>

T_processes == <<"p", "r", "o", "c", "e", "s", "s", "e", "s">>

T_procs_running == <<"p", "r", "o", "c", "s", "_", "r", "u", "n", "n", "i", "n", "g">>

T_procs_blocked == <<"p", "r", "o", "c", "s", "_", "b", "l", "o", "c", "k", "e", "d">>

T_intr == <<"i", "n", "t", "r">>

T_softirq == <<"s", "o", "f", "t", "i", "r", "q">>

T_dot == <<".">>

(***************************************************************************)
(* src/stat.rs: parse_single! and StatCpu::from_str.                       *)
(***************************************************************************)
\* parse_single! without the trailing-content check (a mutant of single_value)
single_value_any_tail(v) ==
    IF v.kind = "panic" THEN v
    ELSE IF v.kind = "none" THEN Error("cannot read value")
    ELSE Ok(v.val)

\* let (input, value) = util::parse_u64(input).ok_or(..)?; ..; Ok(value)
single_value(v) ==
    IF v.kind = "panic" THEN v
    ELSE IF v.kind = "none" THEN Error("cannot read value")
    ELSE IF consume_space(v.rest) # <<>> THEN Error("trailing content")
    ELSE Ok(v.val)

\* let (input, name) = util::parse_token(input).ok_or(..)?; if name != $name { .. }
single_name(name, t) ==
    IF t.kind = "none" THEN Error("cannot read name")
    ELSE IF t.val # name THEN Error("incorrect name")
    ELSE single_value(parse_u64(t.rest))

parse_single(name, input) == single_name(name, parse_token(input))

StatCpu(c) ==
    [user |-> c[1], nice |-> c[2], system |-> c[3], idle |-> c[4], iowait |-> c[5],
     irq |-> c[6], softirq |-> c[7], steal |-> c[8], guest |-> c[9]]

\* let input = util::consume_space(input); if ! input.is_empty() { return None; } Some(..)
cpu_counters(c) ==
    IF c.kind # "some" THEN c
    ELSE IF consume_space(c.rest) # <<>> THEN None
    ELSE Just(StatCpu(c.val))

\* let (input, cpunum) = util::parse_token(input)?; if ! cpunum.starts_with("cpu") { .. }
cpu_token(t) ==
    IF t.kind = "none" THEN None
    ELSE IF ~starts_with(t.val, T_cpu) THEN None
    ELSE cpu_counters(parse_u64s(t.rest, 9))

StatCpu_from_str(input) == cpu_token(parse_token(input))

\* a plain u64 return value
Value(v) == [kind |-> "value", val |-> v]

\* u64::wrapping_add in place of checked_add (a mutant of checked_add)
checked_add_wrapping(a, b) ==
    LET t1 == a[1] + b[1]
        t2 == a[2] + b[2] + (t1 \div LimbBase)
        t3 == a[3] + b[3] + (t2 \div LimbBase)
        t4 == a[4] + b[4] + (t3 \div LimbBase)
    IN  Just(<<t1 % LimbBase, t2 % LimbBase, t3 % LimbBase, t4 % LimbBase>>)

\* u64::checked_add: None when a + b does not fit in 64 bits
checked_add(a, b) ==
    LET t1 == a[1] + b[1]
        t2 == a[2] + b[2] + (t1 \div LimbBase)
        t3 == a[3] + b[3] + (t2 \div LimbBase)
        t4 == a[4] + b[4] + (t3 \div LimbBase)
    IN  IF (t4 \div LimbBase) # 0 THEN None
        ELSE Just(<<t1 % LimbBase, t2 % LimbBase, t3 % LimbBase, t4 % LimbBase>>)

\* Option::unwrap
unwrap(o) ==
    IF o.kind = "none" THEN Panic("called Option::unwrap() on a None value")
    ELSE Value(o.val)

\* .checked_add(self.<field>).unwrap() applied to the sum so far
total_add(acc, field) ==
    IF acc.kind = "panic" THEN acc ELSE unwrap(checked_add(acc.val, field))

StatCpu_total(self) ==
    total_add(total_add(total_add(total_add(total_add(total_add(total_add(total_add(
        Value(self.user), self.nice), self.system), self.idle), self.iowait),
        self.irq), self.softirq), self.steal), self.guest)

(***************************************************************************)
(* src/uptime.rs: Uptime::from_str.                                        *)
(***************************************************************************)
\* Duration::new(secs, nanos), nanos < 1_000_000_000
Duration(secs, nanos) == [secs |-> secs, nanos |-> nanos]

\* let (input, nanos) = util::parse_nanos(input).ok_or("expected number")?;
fixed_nanos(secs, n) ==
    IF n.kind = "panic" THEN n
    ELSE IF n.kind = "none" THEN Error("expected number")
    ELSE Some(n.rest, Duration(secs, n.val))

\* let input = util::expect_bytes(".", input).ok_or("expected \".\"")?;
fixed_dot(secs, d) ==
    IF d.kind = "none" THEN Error("expected \".\"")
    ELSE fixed_nanos(secs, parse_nanos(d.rest))

\* let (input, secs) = util::parse_u64(input).ok_or("expected number")?;
fixed_secs(s) ==
    IF s.kind = "panic" THEN s
    ELSE IF s.kind = "none" THEN Error("expected number")
    ELSE fixed_dot(s.val, expect_bytes(T_dot, s.rest))

\* one `secs.nanos` number: the remainder and its Duration
fixed_point(input) == fixed_secs(parse_u64(input))

\* the second number; what follows it (`_input`) is not looked at
uptime_idle(up, idle) ==
    IF idle.kind # "some" THEN idle ELSE Ok([up |-> up, idle |-> idle.val])

uptime_up(up) ==
    IF up.kind # "some" THEN up ELSE uptime_idle(up.val, fixed_point(up.rest))

Uptime_from_str(input) == uptime_up(fixed_point(input))

(***************************************************************************)
(* src/diskstats.rs: DiskStat::from_str.                                   *)
(***************************************************************************)
\* Duration::from_millis
Duration_from_millis(ms) ==
    Duration(DivMod(ms, 1000).q, DivMod(ms, 1000).r * 1000000)

\* a run of `err_msg!(util::parse_u64(input), msg)?` steps, one per message
RECURSIVE err_msg_u64s(_, _)
RECURSIVE err_msg_next(_, _)
err_msg_next(r, msgs) ==
    IF r.kind = "panic" THEN r
    ELSE IF r.kind = "none" THEN Error(Head(msgs))
    ELSE u64s_cons(r.val, err_msg_u64s(r.rest, Tail(msgs)))

err_msg_u64s(input, msgs) ==
    IF msgs = <<>> THEN Some(input, <<>>) ELSE err_msg_next(parse_u64(input), msgs)

DiskNumberFields == <<"major number", "minor number">>

DiskCounterFields ==
    <<"reads completed successfully", "reads merged", "sectors read",
      "time spent reading (ms)", "writes completed successfully", "writes merged",
      "sectors written", "time writing", "I/Os currently in progress",
      "time spent doing I/Os (ms)", "weighted time spent doing I/Os (ms)">>

\* Ok(DiskStat { .. }); the text after the last field (`_input`) is not looked at
disk_counters(nums, name, c) ==
    IF c.kind # "some" THEN c
    ELSE Ok([major |-> nums[1], minor |-> nums[2], name |-> name,
             reads_completed |-> c.val[1], reads_merged |-> c.val[2],
             sectors_read |-> c.val[3],
             time_reading |-> Duration_from_millis(c.val[4]),
             writes_completed |-> c.val[5], writes_merged |-> c.val[6],
             sectors_written |-> c.val[7],
             time_writing |-> Duration_from_millis(c.val[8]),
             io_in_progress |-> c.val[9],
             time_io |-> Duration_from_millis(c.val[10]),
             time_io_weighted |-> Duration_from_millis(c.val[11])])

\* let (input, name) = err_msg!(util::parse_token(input), "device name")?;
disk_name(nums, n) ==
    IF n.kind = "none" THEN Error("device name")
    ELSE disk_counters(nums, n.val, err_msg_u64s(n.rest, DiskCounterFields))

disk_numbers(a) ==
    IF a.kind # "some" THEN a ELSE disk_name(a.val, parse_token(a.rest))

DiskStat_from_str(input) == disk_numbers(err_msg_u64s(input, DiskNumberFields))

(***************************************************************************)
(* src/util.rs: LineParser.                                                *)
(*                                                                         *)
(* The source is read a line at a time: a read delivers the next line,     *)
(* reports the end of the stream, or fails and appends nothing.            *)
(***************************************************************************)
\* Option::ok_or_else(|| Error::from(msg))
ok_or_else(opt, msg) ==
    IF opt.kind = "none" THEN Error(msg)
    ELSE IF opt.kind = "panic" THEN opt
    ELSE Ok(opt.val)

\* the closures handed to parse_line
P_totals == [fn |-> "StatCpu::from_str", msg |-> "reading totals line"]

P_cpu == [fn |-> "StatCpu::from_str", msg |-> ""]

P_single(name) == [fn |-> "parse_single", name |-> name]

P_disk == [fn |-> "DiskStat::from_str"]

P_uptime == [fn |-> "Uptime::from_str"]

P_dummy == [fn |-> "parse_dummy"]

\* util::parse_dummy
parse_dummy(input) == Ok(<<>>)

call_parser(p, line) ==
    CASE p.fn = "StatCpu::from_str" -> ok_or_else(StatCpu_from_str(line), p.msg)
      [] p.fn = "parse_single" -> parse_single(p.name, line)
      [] p.fn = "DiskStat::from_str" -> DiskStat_from_str(line)
      [] p.fn = "Uptime::from_str" -> Uptime_from_str(line)
      [] p.fn = "parse_dummy" -> parse_dummy(line)

\* whether this call's read of the source may fail
IoChoices == IF buffer = <<>> /\ ioLeft > 0 THEN BOOLEAN ELSE {FALSE}

\* parse_line once the parser has returned, clearing the buffer whatever it returned
\* (a mutant of after_parser)
after_parser_always_clears(parsed, line, newpos, read) ==
    IF parsed.kind = "panic"
    THEN [ret |-> parsed, buffer |-> line, pos |-> newpos, read |-> read, line |-> line]
    ELSE IF parsed.kind = "err"
    THEN [ret |-> IoError("InvalidData", parsed.msg),
          buffer |-> <<>>, pos |-> newpos, read |-> read, line |-> line]
    ELSE [ret |-> Ok(parsed.val), buffer |-> <<>>, pos |-> newpos, read |-> read, line |-> line]

\* the end of parse_line: map_err(..)?, self.buffer.clear(), Ok(parsed)
after_parser(parsed, line, newpos, read) ==
    IF parsed.kind = "panic"
    THEN [ret |-> parsed, buffer |-> line, pos |-> newpos, read |-> read, line |-> line]
    ELSE IF parsed.kind = "err"
    THEN [ret |-> IoError("InvalidData", parsed.msg),
          buffer |-> line, pos |-> newpos, read |-> read, line |-> line]
    ELSE [ret |-> Ok(parsed.val), buffer |-> <<>>, pos |-> newpos, read |-> read, line |-> line]

\* LineParser::parse_line(parser): what it returns and the LineParser it leaves;
\* `read` and `line` record whether the source was read and the text handed to the parser
parse_line(p, ioFails) ==
    IF buffer = <<>> /\ ioFails
    THEN [ret |-> IoError("Other", "read failed"),
          buffer |-> <<>>, pos |-> pos, read |-> TRUE, line |-> <<>>]
    ELSE IF buffer = <<>> /\ pos = Len(src)
    THEN [ret |-> IoError("UnexpectedEof", ""),
          buffer |-> <<>>, pos |-> pos, read |-> TRUE, line |-> <<>>]
    ELSE IF buffer = <<>>
    THEN after_parser(call_parser(p, src[pos + 1]), src[pos + 1], pos + 1, TRUE)
    ELSE after_parser(call_parser(p, buffer), buffer, pos, FALSE)

\* the LineParser after a call, and the call's record in the trace
LineParserAfter(p, ioFails, o) ==
    /\ buffer' = o.buffer
    /\ pos' = o.pos
    /\ ioLeft' = IF ioFails THEN ioLeft - 1 ELSE ioLeft
    /\ trace' = Append(trace, [parser |-> p, read |-> o.read, line |-> o.line,
                               idx |-> o.pos, ret |-> o.ret])

(***************************************************************************)
(* src/stat.rs: Stat::from_reader.                                         *)
(***************************************************************************)
Unset == <<>>

StatLocals ==
    [cpu_totals |-> Unset, cpus |-> <<>>, context_switches |-> Unset, boot_time |-> Unset,
     processes |-> Unset, procs_running |-> Unset]

\* `return` from the running from_reader
Finish(r) ==
    /\ pc' = "done"
    /\ result' = r
    /\ UNCHANGED locals

\* from_reader pushing the aggregate line onto cpus as well (a mutant of Stat_totals)
Stat_totals_counted_in_cpus ==
    /\ prog = "Stat::from_reader"
    /\ pc = "totals"
    /\ \E io \in IoChoices :
          \E o \in {parse_line(P_totals, io)} :
          /\ LineParserAfter(P_totals, io, o)
          /\ IF o.ret.kind = "ok"
             THEN /\ locals' = [locals EXCEPT !.cpu_totals = o.ret.val, !.cpus = <<o.ret.val>>]
                  /\ pc' = "cpus"
                  /\ UNCHANGED result
             ELSE Finish(o.ret)
    /\ UNCHANGED <<prog, arg, overflow_checks, src, given>>

\* let cpu_totals = reader.parse_line(...)?;
Stat_totals ==
    /\ prog = "Stat::from_reader"
    /\ pc = "totals"
    /\ \E io \in IoChoices :
          \E o \in {parse_line(P_totals, io)} :
          /\ LineParserAfter(P_totals, io, o)
          /\ IF o.ret.kind = "ok"
             THEN /\ locals' = [locals EXCEPT !.cpu_totals = o.ret.val]
                  /\ pc' = "cpus"
                  /\ UNCHANGED result
             ELSE Finish(o.ret)
    /\ UNCHANGED <<prog, arg, overflow_checks, src, given>>

\* loop { if let Ok(cpu_info) = reader.parse_line(...) { cpus.push(cpu_info) } else { break } }
Stat_cpus ==
    /\ prog = "Stat::from_reader"
    /\ pc = "cpus"
    /\ \E io \in IoChoices :
          \E o \in {parse_line(P_cpu, io)} :
          /\ LineParserAfter(P_cpu, io, o)
          /\ IF o.ret.kind = "ok"
             THEN /\ locals' = [locals EXCEPT !.cpus = Append(@, o.ret.val)]
                  /\ UNCHANGED <<pc, result>>
             ELSE IF o.ret.kind = "panic"
             THEN Finish(o.ret)
             ELSE /\ pc' = "ctxt"
                  /\ UNCHANGED <<locals, result>>
    /\ UNCHANGED <<prog, arg, overflow_checks, src, given>>

\* let <field> = reader.parse_line(parse_single!(<label>))?;
Stat_single(at, label, field, next) ==
    /\ prog = "Stat::from_reader"
    /\ pc = at
    /\ \E io \in IoChoices :
          \E o \in {parse_line(P_single(label), io)} :
          /\ LineParserAfter(P_single(label), io, o)
          /\ IF o.ret.kind = "ok"
             THEN /\ locals' = [locals EXCEPT ![field] = o.ret.val]
                  /\ pc' = next
                  /\ UNCHANGED result
             ELSE Finish(o.ret)
    /\ UNCHANGED <<prog, arg, overflow_checks, src, given>>

Stat_ctxt == Stat_single("ctxt", T_ctxt, "context_switches", "btime")

Stat_btime == Stat_single("btime", T_btime, "boot_time", "processes")

Stat_processes == Stat_single("processes", T_processes, "processes", "procs_running")

Stat_procs_running ==
    Stat_single("procs_running", T_procs_running, "procs_running", "procs_blocked")

\* let procs_blocked = reader.parse_line(parse_single!("procs_blocked"))?; Ok(Stat { .. })
Stat_procs_blocked ==
    /\ prog = "Stat::from_reader"
    /\ pc = "procs_blocked"
    /\ \E io \in IoChoices :
          \E o \in {parse_line(P_single(T_procs_blocked), io)} :
          /\ LineParserAfter(P_single(T_procs_blocked), io, o)
          /\ IF o.ret.kind = "ok"
             THEN Finish(Ok([cpu_totals |-> locals.cpu_totals,
                             cpus |-> locals.cpus,
                             context_switches |-> locals.context_switches,
                             boot_time |-> locals.boot_time,
                             processes |-> locals.processes,
                             procs_running |-> locals.procs_running,
                             procs_blocked |-> o.ret.val]))
             ELSE Finish(o.ret)
    /\ UNCHANGED <<prog, arg, overflow_checks, src, given>>

(***************************************************************************)
(* src/diskstats.rs: DiskStats::from_reader.                               *)
(***************************************************************************)
\* HashMap::insert: the map after it (an existing entry is overwritten)
HashMap_insert(map, key, value) == (key :> value) @@ map

DiskLocals == [inner |-> <<>>]

\* the guard of the arm that breaks the loop, taking any error for the end of the
\* stream (a mutant of Disk_end_of_stream)
Disk_end_of_stream_any_error(ret) == ret.kind = "err"

\* Err(ref e) if e.kind() == io::ErrorKind::UnexpectedEof => break
Disk_end_of_stream(ret) == ret.kind = "err" /\ ret.error = "UnexpectedEof"

\* the loop of from_reader without the duplicate check (a mutant)
Disk_loop_overwrites ==
    /\ prog = "DiskStats::from_reader"
    /\ pc = "loop"
    /\ \E io \in IoChoices :
          \E o \in {parse_line(P_disk, io)} :
          /\ LineParserAfter(P_disk, io, o)
          /\ IF o.ret.kind = "ok"
             THEN /\ locals' = [locals EXCEPT
                                  !.inner = HashMap_insert(@, o.ret.val.name, o.ret.val)]
                  /\ UNCHANGED <<pc, result>>
             ELSE IF Disk_end_of_stream(o.ret)
             THEN Finish(Ok(locals.inner))
             ELSE Finish(o.ret)
    /\ UNCHANGED <<prog, arg, overflow_checks, src, given>>

\* loop { match reader.parse_line(DiskStat::from_str) { .. } } Ok(DiskStats { inner })
Disk_loop ==
    /\ prog = "DiskStats::from_reader"
    /\ pc = "loop"
    /\ \E io \in IoChoices :
          \E o \in {parse_line(P_disk, io)} :
          /\ LineParserAfter(P_disk, io, o)
          /\ IF o.ret.kind = "ok"
             THEN /\ locals' = [locals EXCEPT
                                  !.inner = HashMap_insert(@, o.ret.val.name, o.ret.val)]
                  /\ IF o.ret.val.name \in DOMAIN locals.inner
                     THEN /\ pc' = "done"
                          /\ result' = Panic("Duplicate device name in /proc/diskstats")
                     ELSE UNCHANGED <<pc, result>>
             ELSE IF Disk_end_of_stream(o.ret)
             THEN Finish(Ok(locals.inner))
             ELSE Finish(o.ret)
    /\ UNCHANGED <<prog, arg, overflow_checks, src, given>>

(***************************************************************************)
(* A caller of LineParser that hands any of its parsers to parse_line,     *)
(* call after call.                                                        *)
(***************************************************************************)
CallerParsers == {P_cpu, P_single(T_ctxt), P_dummy}

Caller_parse_line ==
    /\ prog = "LineParser"
    /\ pc = "calling"
    /\ Len(trace) < MaxCalls
    /\ \E p \in CallerParsers, io \in IoChoices :
          \E o \in {parse_line(p, io)} :
          /\ LineParserAfter(p, io, o)
          /\ result' = o.ret
          /\ pc' = IF o.ret.kind = "panic" THEN "done" ELSE "calling"
    /\ UNCHANGED <<prog, arg, overflow_checks, src, locals, given>>

(***************************************************************************)
(* Inputs.  Every text the model feeds a parser is rendered from a         *)
(* structured description, kept in `given`.                                *)
(***************************************************************************)
RECURSIVE RenderNums(_)
RenderNums(nums) ==
    IF nums = <<>> THEN <<>>
    ELSE <<" ">> \o ToDecimal(FromNat(Head(nums))) \o RenderNums(Tail(nums))

RECURSIVE RenderTokens(_)
RenderTokens(toks) ==
    IF toks = <<>> THEN <<>>
    ELSE <<" ">> \o Head(toks) \o RenderTokens(Tail(toks))

\* a line: a first token, numeric columns, further columns, the newline
LineDesc(name, nums, extra) == [name |-> name, nums |-> nums, extra |-> extra]

RenderLine(d) == d.name \o RenderNums(d.nums) \o RenderTokens(d.extra) \o <<"\n">>

RECURSIVE RenderLines(_)
RenderLines(ds) ==
    IF ds = <<>> THEN <<>> ELSE <<RenderLine(Head(ds))>> \o RenderLines(Tail(ds))

Leads == {<<>>, <<" ">>, <<" ", "\t">>}

\* parse_u64: a rendered value between whitespace and a tail that starts with no digit,
\* a text with no leading digit, and digit runs beyond 2^64 - 1
LimbSamples == {0, 9, 10, LimbBase - 1}

U64Samples ==
    {FromNat(n) : n \in 0..MaxSmallValue}
        \cup {<<a, b, c, d>> : a \in LimbSamples, b \in LimbSamples,
                                 c \in LimbSamples, d \in LimbSamples}

U64Trails == {<<>>, <<" ">>, <<"a">>, <<".", "5">>}

U64NoMatch == {<<>>, <<"a", "1", "2">>, <<".", "1">>, <<"-", "1">>}

U64TooBig == {ToDecimal(U64Max) \o <<"0">>, <<"9">> \o ToDecimal(U64Max)}

U64Given ==
    [kind : {"render"}, lead : Leads, v : U64Samples, trail : U64Trails]
        \cup [kind : {"nomatch"}, lead : Leads, trail : U64NoMatch]
        \cup [kind : {"toobig"}, lead : Leads, digits : U64TooBig]

U64Text(g) ==
    IF g.kind = "render" THEN g.lead \o ToDecimal(g.v) \o g.trail
    ELSE IF g.kind = "nomatch" THEN g.lead \o g.trail
    ELSE g.lead \o g.digits

\* parse_nanos: a run of digits between whitespace and a tail
NanoDigits == {"0", "7"}

NanoRuns == UNION {[1..k -> NanoDigits] : k \in 0..MaxNanoDigits}

NanoTrails == {<<>>, <<"x">>, <<" ", "2">>}

NanosGiven ==
    {g \in [lead : {<<>>, <<" ">>}, digits : NanoRuns, trail : NanoTrails] :
        g.digits = <<>> => g.trail # <<" ", "2">>}

NanosText(g) == g.lead \o g.digits \o g.trail

\* StatCpu::from_str: a first token, eight or nine counters, further columns
CountersA == <<4713, 0, 1720, 2049410, 8036, 260, 255, 0, 0>>

CountersB == <<17501, 2, 6293, 8212469, 20141, 1955, 805, 0, 0>>

CountersShort == <<3866, 0, 1325, 2054893, 3673, 928, 307, 0>>

CpuGiven ==
    {LineDesc(n, c, e) : n \in {T_cpu, T_cpu0, T_intr},
                         c \in {CountersA, CountersB, CountersShort},
                         e \in {<<>>, <<<<"0">>>>, <<<<"0">>, <<"0">>>>, <<<<"x">>>>}}

\* StatCpu::total: nine counters, all `fill` but for two positions that hold sampled
\* values up to 2^64 - 1
TotalSamples ==
    {U64Zero, FromNat(1), U64Max,
     <<LimbBase - 1, LimbBase - 1, 0, 0>>,
     <<LimbBase - 1, LimbBase - 1, LimbBase - 1, (LimbBase \div 2) - 1>>,
     <<0, 0, 0, LimbBase \div 2>>}

TotalFills == {U64Zero, FromNat(1), FromNat(MaxSmallValue)}

TotalCounters(i, a, j, b, fill) ==
    [k \in 1..9 |-> IF k = i THEN a ELSE IF k = j THEN b ELSE fill]

TotalGiven ==
    {TotalCounters(i, a, j, b, fill) :
        i \in 1..9, j \in 1..9, a \in TotalSamples, b \in TotalSamples, fill \in TotalFills}

\* Uptime::from_str: two fields and a tail
UptimeFields ==
    {[text |-> <<"1", ".", "5">>, good |-> TRUE, secs |-> 1, nanos |-> 500000000],
     [text |-> <<"2", "3", ".", "4", "7">>, good |-> TRUE, secs |-> 23, nanos |-> 470000000],
     [text |-> <<"0", ".", "0", "1", "2">>, good |-> TRUE, secs |-> 0, nanos |-> 12000000],
     [text |-> <<"1", "5">>, good |-> FALSE, secs |-> 0, nanos |-> 0],
     [text |-> <<"x", ".", "5">>, good |-> FALSE, secs |-> 0, nanos |-> 0],
     [text |-> <<"1", ".", "x">>, good |-> FALSE, secs |-> 0, nanos |-> 0],
     [text |-> <<>>, good |-> FALSE, secs |-> 0, nanos |-> 0]}

UptimeTrails == {<<>>, <<" ", "x">>, <<" ", "7", ".", "1">>}

\* (a missing field leaves one number on the line, so it comes with no tail)
UptimeGiven ==
    {g \in [lead : {<<>>, <<" ">>}, f1 : UptimeFields, f2 : UptimeFields, trail : UptimeTrails] :
        (g.f1.text = <<>> \/ g.f2.text = <<>>) => g.trail = <<>>}

UptimeText(g) == g.lead \o g.f1.text \o <<" ">> \o g.f2.text \o g.trail \o <<"\n">>

(***************************************************************************)
(* The pure functions, each called once on a drawn input.                  *)
(***************************************************************************)
Pending == [kind |-> "pending"]

NoLocals == [none |-> TRUE]

InitPure(p, g, text) ==
    /\ prog = p
    /\ pc = "call"
    /\ given = g
    /\ arg = text
    /\ overflow_checks \in BOOLEAN
    /\ src = <<>>
    /\ pos = 0
    /\ buffer = <<>>
    /\ ioLeft = 0
    /\ locals = NoLocals
    /\ result = Pending
    /\ trace = <<>>

InitPrim ==
    \/ \E g \in U64Given : InitPure("parse_u64", g, U64Text(g))
    \/ \E g \in NanosGiven : InitPure("parse_nanos", g, NanosText(g))
    \/ \E g \in CpuGiven : InitPure("StatCpu::from_str", g, RenderLine(g))
    \/ \E g \in UptimeGiven : InitPure("Uptime::from_str", g, UptimeText(g))
    \/ \E g \in TotalGiven : InitPure("StatCpu::total", g, StatCpu(g))

Return(r) ==
    /\ pc = "call"
    /\ pc' = "done"
    /\ result' = r
    /\ UNCHANGED <<prog, arg, overflow_checks, src, pos, buffer, ioLeft, locals, given, trace>>

Call_parse_u64 == prog = "parse_u64" /\ Return(parse_u64(arg))

Call_parse_nanos == prog = "parse_nanos" /\ Return(parse_nanos(arg))

Call_StatCpu_from_str == prog = "StatCpu::from_str" /\ Return(StatCpu_from_str(arg))

Call_Uptime_from_str == prog = "Uptime::from_str" /\ Return(Uptime_from_str(arg))

Call_StatCpu_total == prog = "StatCpu::total" /\ Return(StatCpu_total(arg))

NextPrim ==
    \/ Call_parse_u64
    \/ Call_parse_nanos
    \/ Call_StatCpu_from_str
    \/ Call_Uptime_from_str
    \/ Call_StatCpu_total

SpecPrim == InitPrim /\ [][NextPrim]_vars

Returned(p) == prog = p /\ pc = "done"

(***************************************************************************)
(* /proc/stat files: the aggregate line, per-core lines, unmodeled lines,  *)
(* and a tail: the five scalar lines, or a damaged version of them.        *)
(***************************************************************************)
CountersC == <<3866, 0, 1325, 2054893, 3673, 928, 307, 0, 0>>

IntrLine == LineDesc(T_intr, <<1015182, 8, 8252>>, <<>>)

SoftirqLine == LineDesc(T_softirq, <<4257581, 64>>, <<>>)

AggLines ==
    {LineDesc(T_cpu, CountersB, <<>>), LineDesc(T_cpu, CountersB, <<<<"0">>>>), IntrLine}

CoreLines == {LineDesc(T_cpu0, CountersA, <<>>), LineDesc(T_cpu1, CountersC, <<>>)}

CoreRuns == UNION {[1..n -> CoreLines] : n \in 0..MaxCores}

ExtraRuns == {<<>>, <<IntrLine>>, <<IntrLine, SoftirqLine>>}

ScalarLabels == <<T_ctxt, T_btime, T_processes, T_procs_running, T_procs_blocked>>

ScalarValues == <<2238717, 1535128607, 2453, 1, 0>>

GoodTail == [i \in 1..5 |-> LineDesc(ScalarLabels[i], <<ScalarValues[i]>>, <<>>)]

\* line i without its value, with trailing content, with a second number, mislabeled
BadScalars(i) ==
    {LineDesc(ScalarLabels[i], <<>>, <<>>),
     LineDesc(ScalarLabels[i], <<ScalarValues[i]>>, <<<<"x">>>>),
     LineDesc(ScalarLabels[i], <<ScalarValues[i], 5>>, <<>>),
     LineDesc(ScalarLabels[i] \o <<"s">>, <<ScalarValues[i]>>, <<>>)}

Swapped(i) == [GoodTail EXCEPT ![i] = GoodTail[i + 1], ![i + 1] = GoodTail[i]]

Tails ==
    {GoodTail, GoodTail \o <<SoftirqLine>>}
        \cup {SubSeq(GoodTail, 1, k) : k \in 0..4}
        \cup UNION {{[GoodTail EXCEPT ![i] = b] : b \in BadScalars(i)} : i \in 1..5}
        \cup {Swapped(i) : i \in 1..4}

StatGiven == [agg : AggLines, cores : CoreRuns, extra : ExtraRuns, tail : Tails]

StatFile(g) == <<g.agg>> \o g.cores \o g.extra \o g.tail

InitReader(p, at, g, text, vars0) ==
    /\ prog = p
    /\ pc = at
    /\ given = g
    /\ src = text
    /\ pos = 0
    /\ buffer = <<>>
    /\ ioLeft = MaxIoErrors
    /\ locals = vars0
    /\ result = Pending
    /\ trace = <<>>
    /\ arg = <<>>
    /\ overflow_checks = FALSE

InitStat ==
    \E g \in StatGiven :
        InitReader("Stat::from_reader", "totals", g, RenderLines(StatFile(g)), StatLocals)

NextStat ==
    \/ Stat_totals
    \/ Stat_cpus
    \/ Stat_ctxt
    \/ Stat_btime
    \/ Stat_processes
    \/ Stat_procs_running
    \/ Stat_procs_blocked

SpecStat == InitStat /\ [][NextStat]_vars

(***************************************************************************)
(* /proc/diskstats files.                                                  *)
(***************************************************************************)
T_sda == <<"s", "d", "a">>

T_sdb == <<"s", "d", "b">>

T_sda1 == <<"s", "d", "a", "1">>

\* a line: its columns, and how many of them (from the left) the line holds
DiskDesc(major, minor, name, nums, extra) ==
    [major |-> major, minor |-> minor, name |-> name, nums |-> nums, extra |-> extra,
     cols |-> 3 + Len(nums) + Len(extra)]

\* the line cut after its first k columns
DiskFirst(d, k) == [d EXCEPT !.cols = k]

\* the columns of a line, each with the whitespace before it
DiskColumns(d) ==
    <<<<" ", " ", " ">> \o ToDecimal(FromNat(d.major)),
      <<" ", " ", " ", " ", " ">> \o ToDecimal(FromNat(d.minor)),
      <<" ">> \o d.name>>
        \o [i \in 1..Len(d.nums) |-> <<" ">> \o ToDecimal(FromNat(d.nums[i]))]
        \o [i \in 1..Len(d.extra) |-> <<" ">> \o d.extra[i]]

RECURSIVE RenderColumns(_)
RenderColumns(columns) ==
    IF columns = <<>> THEN <<>> ELSE Head(columns) \o RenderColumns(Tail(columns))

RenderDisk(d) == RenderColumns(SubSeq(DiskColumns(d), 1, d.cols)) \o <<"\n">>

RECURSIVE RenderDisks(_)
RenderDisks(ds) ==
    IF ds = <<>> THEN <<>> ELSE <<RenderDisk(Head(ds))>> \o RenderDisks(Tail(ds))

DiskCountersA == <<446866, 32893, 8168064, 20164, 339296, 376515, 86758441, 4343530, 0, 250860, 4704740>>

DiskCountersB == <<213, 0, 18712, 564, 0, 0, 0, 0, 0, 217, 794>>

DiskCountersC == <<143, 30, 11462, 24, 1, 0, 8, 0, 0, 50, 64>>

\* two devices, one of them a second time with other counters, a device with the extra
\* columns of a newer kernel, and a line that lacks its last field
DiskLines ==
    {DiskDesc(8, 0, T_sda, DiskCountersA, <<>>),
     DiskDesc(8, 16, T_sdb, DiskCountersB, <<>>),
     DiskDesc(8, 0, T_sda, DiskCountersC, <<>>),
     DiskDesc(8, 1, T_sda1, DiskCountersC, <<<<"0">>, <<"0">>>>),
     DiskDesc(8, 16, T_sdb, SubSeq(DiskCountersB, 1, 10), <<>>)}

DiskFiles(n) == UNION {[1..k -> DiskLines] : k \in 0..n}

\* a line of fourteen columns cut after any of them: a line that lacks a required field
DiskCuts == {DiskFirst(DiskDesc(8, 0, T_sda, DiskCountersA, <<>>), k) : k \in 0..13}

\* files of the lines above, and files with one cut line anywhere among them
DiskGiven ==
    DiskFiles(MaxDiskLines)
        \cup UNION {{f \o <<c>> \o g : f \in [1..k -> DiskLines],
                                       g \in DiskFiles(MaxDiskLines - 1 - k), c \in DiskCuts} :
                        k \in 0..(MaxDiskLines - 1)}

InitDisk ==
    \E g \in DiskGiven :
        InitReader("DiskStats::from_reader", "loop", g, RenderDisks(g), DiskLocals)

NextDisk == Disk_loop

SpecDisk == InitDisk /\ [][NextDisk]_vars

\* from_reader has been called and has not returned
DiskRunning == prog = "DiskStats::from_reader" /\ pc = "loop"

\* from_reader runs on: a call that has not returned takes its next step.  This is weak
\* fairness of NextDisk with its enabling condition written out: the loop can take a
\* step exactly while the call is running.
DiskFair == []<>(~DiskRunning) \/ []<><<NextDisk>>_vars

SpecDiskLive == SpecDisk /\ DiskFair

(***************************************************************************)
(* Sources for the caller of LineParser.                                   *)
(***************************************************************************)
CallerLines == {LineDesc(T_cpu0, CountersA, <<>>), GoodTail[1], IntrLine}

CallerGiven == UNION {[1..n -> CallerLines] : n \in 0..MaxSrcLines}

InitLines ==
    \E g \in CallerGiven : InitReader("LineParser", "calling", g, RenderLines(g), NoLocals)

NextLines == Caller_parse_line

SpecLines == InitLines /\ [][NextLines]_vars

Done == pc = "done"

\* a read of the source failed during the run
ReadFailed == \E i \in 1..Len(trace) : trace[i].ret.kind = "err" /\ trace[i].ret.error = "Other"

(***************************************************************************)
(* Claims about the pure functions (under SpecPrim).                       *)
(***************************************************************************)
RECURSIVE FromNats(_)
FromNats(nums) ==
    IF nums = <<>> THEN <<>> ELSE <<FromNat(Head(nums))>> \o FromNats(Tail(nums))

\* C2: a line whose first token starts with `cpu`, with nine counters and then one or
\* more extra columns, decodes to the record of the first nine counters.
C2_TrailingColumnsTolerated ==
    (/\ Returned("StatCpu::from_str")
     /\ starts_with(given.name, T_cpu)
     /\ Len(given.nums) = 9
     /\ given.extra # <<>>)
        => result = Just(StatCpu(FromNats(given.nums)))

\* C5: Uptime::from_str returns an error for every line that is not exactly two
\* fixed-point numbers: a field without its decimal point, a non-numeric field, a
\* missing field, or content after the second number.
C5_UptimeRejectsMalformed ==
    (/\ Returned("Uptime::from_str")
     /\ ~(given.f1.good /\ given.f2.good /\ given.trail = <<>>))
        => result.kind = "err"

RECURSIVE NanosValue(_, _)
NanosValue(digits, weight) ==
    IF digits = <<>> THEN 0
    ELSE to_digit(Head(digits)) * weight + NanosValue(Tail(digits), weight \div 10)

\* C6: on a run of k digits, 1 <= k <= 9, parse_nanos returns the text after the run and
\* the sum of d_i * 10^(9-i); with no leading digit it returns None; it panics only on
\* more than nine digits.
C6_ParseNanosUpToNineDigits ==
    Returned("parse_nanos") =>
        LET k == Len(given.digits) IN
        /\ k = 0 => result = None
        /\ (1 <= k /\ k <= 9) => result = Some(given.trail, NanosValue(given.digits, 100000000))
        /\ result.kind = "panic" => k > 9

\* C7: parse_u64 on the decimal rendering of any u64, after optional whitespace and
\* before a tail that starts with no digit, returns that value and exactly the tail, in
\* the build that panics on overflow as in the build that wraps; on a text whose first
\* non-space character is no digit it returns None.
C7_ParseU64RoundTrip ==
    Returned("parse_u64") =>
        /\ given.kind = "render" => result = Some(given.trail, given.v)
        /\ given.kind = "nomatch" => result = None

C7_Witness ==
    /\ Returned("parse_u64")
    /\ given.kind = "render"
    /\ given.v = U64Max
    /\ given.lead = <<" ", "\t">>
    /\ given.trail = <<"a">>
    /\ overflow_checks
    /\ result.kind = "some"

\* the k-th limbs of the nine counters added up
ColumnSum(c, k) ==
    c[1][k] + c[2][k] + c[3][k] + c[4][k] + c[5][k] + c[6][k] + c[7][k] + c[8][k] + c[9][k]

\* the sum of the nine counters as a natural number, on five limbs
ExactSum(c) ==
    LET t1 == ColumnSum(c, 1)
        t2 == ColumnSum(c, 2) + (t1 \div LimbBase)
        t3 == ColumnSum(c, 3) + (t2 \div LimbBase)
        t4 == ColumnSum(c, 4) + (t3 \div LimbBase)
    IN  <<t1 % LimbBase, t2 % LimbBase, t3 % LimbBase, t4 % LimbBase, t4 \div LimbBase>>

\* C11: StatCpu::total returns the exact sum of the nine counters when that sum is below
\* 2^64 and panics when it is not (then some partial sum exceeds 2^64 - 1), in either
\* build; it never returns the sum wrapped modulo 2^64.
C11_TotalIsCheckedSum ==
    Returned("StatCpu::total") =>
        /\ ExactSum(given)[5] = 0 => result = Value(SubSeq(ExactSum(given), 1, 4))
        /\ ExactSum(given)[5] # 0 => result.kind = "panic"

C11_Witness ==
    /\ Returned("StatCpu::total")
    /\ given[9] = U64Max
    /\ given[1] = <<LimbBase - 1, LimbBase - 1, 0, 0>>
    /\ given[2] = FromNat(1)
    /\ ~overflow_checks
    /\ ExactSum(given)[5] = 1
    /\ result.kind = "panic"

(***************************************************************************)
(* Claims about Stat::from_reader (under SpecStat).                        *)
(***************************************************************************)
\* a line of the cpu section: a token that starts with `cpu` and nine counters
IsCpuLine(d) == starts_with(d.name, T_cpu) /\ Len(d.nums) = 9 /\ d.extra = <<>>

\* the i-th scalar line: its label, one number, nothing else
IsScalar(d, i) == d.name = ScalarLabels[i] /\ Len(d.nums) = 1 /\ d.extra = <<>>

FiveScalars(lines) == Len(lines) >= 5 /\ \A i \in 1..5 : IsScalar(lines[i], i)

RECURSIVE AfterCpuLines(_)
AfterCpuLines(lines) ==
    IF lines # <<>> /\ IsCpuLine(Head(lines)) THEN AfterCpuLines(Tail(lines)) ELSE lines

\* the file's first line is a cpu line, and the lines after its cpu section start with
\* the five scalar lines in their order
WellFormedStat(g) == IsCpuLine(g.agg) /\ FiveScalars(AfterCpuLines(Tail(StatFile(g))))

ExpectedCpu(nums) ==
    [user |-> FromNat(nums[1]), nice |-> FromNat(nums[2]), system |-> FromNat(nums[3]),
     idle |-> FromNat(nums[4]), iowait |-> FromNat(nums[5]), irq |-> FromNat(nums[6]),
     softirq |-> FromNat(nums[7]), steal |-> FromNat(nums[8]), guest |-> FromNat(nums[9])]

StatReturned == prog = "Stat::from_reader" /\ Done

\* C1: on a file of an aggregate cpu line, n per-core lines, one or more unmodeled
\* lines and the five scalar lines, from_reader returns Ok with n cpus and the five
\* scalars of their lines.
C1_UnmodeledLinesSkipped ==
    (/\ StatReturned
     /\ IsCpuLine(given.agg)
     /\ given.extra # <<>>
     /\ FiveScalars(given.tail)
     /\ ~ReadFailed)
        => /\ result.kind = "ok"
           /\ Len(result.val.cpus) = Len(given.cores)
           /\ result.val.context_switches = FromNat(given.tail[1].nums[1])
           /\ result.val.boot_time = FromNat(given.tail[2].nums[1])
           /\ result.val.processes = FromNat(given.tail[3].nums[1])
           /\ result.val.procs_running = FromNat(given.tail[4].nums[1])
           /\ result.val.procs_blocked = FromNat(given.tail[5].nums[1])

C9_CpusInFileOrder ==
    (/\ StatReturned
     /\ IsCpuLine(given.agg)
     /\ \A i \in 1..Len(given.cores) : IsCpuLine(given.cores[i])
     /\ given.extra = <<>>
     /\ FiveScalars(given.tail))
        => /\ ~ReadFailed => result.kind = "ok"
           /\ result.kind = "ok" =>
                 /\ Len(result.val.cpus) = Len(given.cores)
                 /\ \A i \in 1..Len(given.cores) :
                       result.val.cpus[i] = ExpectedCpu(given.cores[i].nums)
                 /\ result.val.cpu_totals = ExpectedCpu(given.agg.nums)

C9_Witness ==
    /\ StatReturned
    /\ result.kind = "ok"
    /\ Len(given.cores) = 2
    /\ given.cores[1] # given.cores[2]
    /\ Len(result.val.cpus) = 2
    /\ result.val.cpus[1] = ExpectedCpu(CountersC)
    /\ result.val.cpus[2] = ExpectedCpu(CountersA)

\* C10: if a read of the source fails during the call, from_reader returns that I/O
\* error.
C10_FirstIoErrorPropagated ==
    (StatReturned /\ ReadFailed) => result = IoError("Other", "read failed")

(***************************************************************************)
(* Claims about DiskStats::from_reader (under SpecDisk).                   *)
(***************************************************************************)
DiskDecodes(d) == d.cols >= 14 /\ Len(d.nums) >= 11

AllDecode(g) == \A i \in 1..Len(g) : DiskDecodes(g[i])

DistinctNames(g) == \A i, j \in 1..Len(g) : i # j => g[i].name # g[j].name

MillisDuration(ms) == Duration(FromNat(ms \div 1000), (ms % 1000) * 1000000)

ExpectedDisk(d) ==
    [major |-> FromNat(d.major), minor |-> FromNat(d.minor), name |-> d.name,
     reads_completed |-> FromNat(d.nums[1]), reads_merged |-> FromNat(d.nums[2]),
     sectors_read |-> FromNat(d.nums[3]), time_reading |-> MillisDuration(d.nums[4]),
     writes_completed |-> FromNat(d.nums[5]), writes_merged |-> FromNat(d.nums[6]),
     sectors_written |-> FromNat(d.nums[7]), time_writing |-> MillisDuration(d.nums[8]),
     io_in_progress |-> FromNat(d.nums[9]), time_io |-> MillisDuration(d.nums[10]),
     time_io_weighted |-> MillisDuration(d.nums[11])]

DiskReturned == prog = "DiskStats::from_reader" /\ Done

DuplicateDevice == Panic("Duplicate device name in /proc/diskstats")

\* C4: on a file whose lines all decode and name pairwise distinct devices, from_reader
\* returns Ok with exactly one entry per line under its device name; on a file whose
\* lines all decode and two of which name the same device it fails with the
\* duplicate-device failure; and it never returns Ok on a file that names a device twice.
C4_DeviceNamesUnique ==
    DiskReturned =>
        /\ (AllDecode(given) /\ ~ReadFailed /\ DistinctNames(given)) =>
              /\ result.kind = "ok"
              /\ DOMAIN result.val = {given[i].name : i \in 1..Len(given)}
              /\ Cardinality(DOMAIN result.val) = Len(given)
              /\ \A i \in 1..Len(given) : result.val[given[i].name] = ExpectedDisk(given[i])
        /\ (AllDecode(given) /\ ~ReadFailed /\ ~DistinctNames(given)) =>
              result = DuplicateDevice
        /\ ~DistinctNames(given) => result.kind # "ok"

C4_Witness ==
    /\ DiskReturned
    /\ Len(given) = 3
    /\ given[1].name = given[3].name
    /\ given[1].name # given[2].name
    /\ given[1] # given[3]
    /\ ~ReadFailed
    /\ result = DuplicateDevice

\* the first line of the file that lacks a required field, 0 if there is none
FirstShort(g) ==
    IF AllDecode(g) THEN 0
    ELSE CHOOSE i \in 1..Len(g) : ~DiskDecodes(g[i]) /\ \A j \in 1..(i - 1) : DiskDecodes(g[j])

\* the call reached the end of the stream: its last read found no line left
ReachedEndOfStream ==
    /\ trace # <<>>
    /\ trace[Len(trace)].read
    /\ trace[Len(trace)].ret = IoError("UnexpectedEof", "")
    /\ pos = Len(src)

C12_OkOnlyAtEndOfStream ==
    DiskReturned =>
        /\ result.kind = "ok" =>
              /\ ReachedEndOfStream
              /\ AllDecode(given)
              /\ Len(trace) = Len(given) + 1
              /\ \A i \in 1..Len(given) :
                    /\ trace[i].ret.kind = "ok"
                    /\ given[i].name \in DOMAIN result.val
                    /\ result.val[given[i].name] = ExpectedDisk(given[i])
        /\ (/\ FirstShort(given) # 0
            /\ ~ReadFailed
            /\ DistinctNames(SubSeq(given, 1, FirstShort(given) - 1))) =>
              /\ result.kind = "err"
              /\ result.error = "InvalidData"
              /\ Len(trace) = FirstShort(given)
        /\ (AllDecode(given) /\ ~ReadFailed /\ DistinctNames(given)) => result.kind = "ok"

\* C12: DiskStats::from_reader returns on every finite source; it returns Ok only after
\* a read found the end of the stream, with every line of the file decoded into its
\* entry; the first line that lacks any of the fourteen required fields ends the call
\* with an InvalidData error, never with Ok of the devices read so far; lines with extra
\* trailing columns decode.
C12_TerminatesAndDecodesEveryLine ==
    /\ [](C12_OkOnlyAtEndOfStream)
    /\ <>(DiskReturned)

C12_Witness ==
    /\ DiskReturned
    /\ Len(given) = 3
    /\ DiskDecodes(given[1])
    /\ given[1].extra # <<>>
    /\ given[2].cols = 13
    /\ DiskDecodes(given[3])
    /\ ~ReadFailed
    /\ Len(trace) = 2
    /\ DOMAIN locals.inner = {given[1].name}
    /\ result.kind = "err"
    /\ result.error = "InvalidData"

(***************************************************************************)
(* Claims about LineParser::parse_line (under SpecLines).                  *)
(***************************************************************************)
DecoderFailed(c) == c.ret.kind = "err" /\ c.ret.error = "InvalidData"

Decoded(c) == c.ret.kind = "ok"

====
